---- MODULE Spec2Model ----
(***************************************************************************)
(* Model of the SupportAI ticket pipeline (support-ai/main.py and          *)
(* support-ai/src): one run of the LangGraph workflow                      *)
(*   detect_intent -> classify_triage -> expand_queries -> vector_search   *)
(*   -> rerank -> generate_draft -> check_policy -> {validate_output, END} *)
(* followed by process_ticket's handling of the workflow result.           *)
(* Spec is one run; ConcurrentSpec is several runs interleaving in one     *)
(* process.                                                                *)
(*                                                                         *)
(* Conventions.  A Python dict is a function whose domain is its key set.  *)
(* A text is a sequence of lower-case words; "NL" is a line break.         *)
(* Scores and confidences are kept in tenths (0.3 is 3, 0.5 is 5).         *)
(* Every external capability call (LLM, embedding, vector store, rerank    *)
(* API) is an input of the action that makes it, drawn from a small set of *)
(* replies: kind "raise" is a failed call, "badjson" a reply that          *)
(* json.loads rejects, "list"/"scalar" valid JSON that is not an object,   *)
(* and "json" a JSON object.                                               *)
(***************************************************************************)
EXTENDS Integers, Sequences, FiniteSets, TLC

\* state: the WorkflowState of the run; pc: the node the run is at; method:
\* the method of the process-wide reranker; response_templates: the
\* module-level object RESPONSE_TEMPLATES as it is now, shared by every run
\* of the process; responses: the capability replies received so far (kept
\* by ConcurrentSpec only, where state, pc and responses hold one entry per
\* run).
VARIABLES state, pc, method, response_templates, responses

vars == <<state, pc, method, response_templates, responses>>

\* ------------------------------------------------------------------ dicts
EmptyDict == [k \in {} |-> TRUE]

Has(d, k) == k \in DOMAIN d

DictGet(d, k, default) == IF k \in DOMAIN d THEN d[k] ELSE default

Put(d, k, v) == [x \in (DOMAIN d) \cup {k} |-> IF x = k THEN v ELSE d[x]]

FillMissing(d, fields, defaults) ==
    [k \in (DOMAIN d) \cup fields |-> IF Has(d, k) THEN d[k] ELSE defaults[k]]

AppendError(s, msg) == [s EXCEPT !["errors"] = Append(@, msg)]

\* --------------------------------------------------------------- tickets
MaxTickets == 1

AllTickets ==
    << [ticket_id |-> "TKT-1",
        message |-> <<"VPN", "not", "working", "at", "login">>,
        customer_email |-> <<"john", ".", "doe", "@", "example.com">>],
       [ticket_id |-> "TKT-2",
        message |-> <<"i", "have", "been", "charged", "twice">>,
        customer_email |-> <<>>],
       [ticket_id |-> "TKT-3",
        message |-> <<"please", "delete", "account">>,
        customer_email |-> <<"x">>] >>

Tickets == {AllTickets[i] : i \in 1..(IF MaxTickets < Len(AllTickets) THEN MaxTickets ELSE Len(AllTickets))}

InitialState(t) ==
    [k \in {"ticket_id", "original_message", "customer_email", "errors"} |->
        CASE k = "ticket_id" -> t.ticket_id
          [] k = "original_message" -> t.message
          [] k = "customer_email" -> t.customer_email
          [] k = "errors" -> <<>>]

\* ---------------------------------------------------------------- intent
IntentParseFallback ==
    [problem_type |-> "other", sentiment |-> "neutral", confidence |-> 5,
     reasoning |-> "Failed to parse LLM response"]

IntentErrorFallback ==
    [problem_type |-> "other", sentiment |-> "neutral", confidence |-> 0,
     reasoning |-> "Error during processing"]

IntentDefault ==
    [problem_type |-> "unknown", sentiment |-> "unknown", confidence |-> 0]

IntentObjects ==
    { [problem_type |-> "billing", sentiment |-> "frustrated", confidence |-> 9],
      [problem_type |-> "technical", sentiment |-> "neutral", confidence |-> 9],
      [problem_type |-> "refunds", sentiment |-> "angry"] }

NonObjectKinds == {"raise", "list"}

IntentReplies ==
    {[kind |-> k, data |-> EmptyDict] : k \in {"raise", "badjson", "list"}}
    \cup {[kind |-> "json", data |-> d] : d \in IntentObjects}

detect_intent(s, reply) ==
    IF reply.kind \in NonObjectKinds
    THEN Put(AppendError(s, "Intent detection error"), "intent", IntentErrorFallback)
    ELSE LET intent_data == IF reply.kind = "badjson" THEN IntentParseFallback
                            ELSE reply.data
         IN Put(s, "intent",
                FillMissing(intent_data, {"problem_type", "sentiment", "confidence"},
                            IntentDefault))

DetectIntent ==
    /\ pc = "detect_intent"
    /\ \E reply \in IntentReplies : state' = detect_intent(state, reply)
    /\ pc' = "classify_triage"
    /\ UNCHANGED <<method, response_templates, responses>>

\* ---------------------------------------------------------------- triage
\* A JSON value whose Python type the code tests is kept tagged.
JInt(n) == [t |-> "int", v |-> n]

JStr(x) == [t |-> "str", v |-> x]

type_mapping ==
    [billing |-> [category |-> "Billing - Invoice Issue", subcategory |-> "General Billing",
                  suggested_team |-> "Finance Team", priority |-> "P2", sla_hours |-> 24],
     technical |-> [category |-> "Technical - General", subcategory |-> "Technical Issue",
                    suggested_team |-> "Technical Team", priority |-> "P2", sla_hours |-> 24],
     account |-> [category |-> "Account - Access", subcategory |-> "Account Issue",
                  suggested_team |-> "Account Team", priority |-> "P2", sla_hours |-> 24],
     feature_request |-> [category |-> "Feature Request", subcategory |-> "New Feature",
                          suggested_team |-> "Product Team", priority |-> "P3", sla_hours |-> 48],
     other |-> [category |-> "General Inquiry", subcategory |-> "General Question",
                suggested_team |-> "Support Team", priority |-> "P2", sla_hours |-> 24]]

FrustratedPriority == "P1"

FrustratedSla == 4

FallbackConfidence == 5

get_fallback_triage(problem_type, sentiment) ==
    LET base_triage == DictGet(type_mapping, problem_type, type_mapping["other"])
        adjusted == IF sentiment = "frustrated"
                    THEN [base_triage EXCEPT !.priority = FrustratedPriority,
                                             !.sla_hours = FrustratedSla]
                    ELSE base_triage
    IN Put(adjusted, "confidence", FallbackConfidence)

get_default_value ==
    [category |-> "General Inquiry", subcategory |-> "General Question",
     priority |-> "P2", sla_hours |-> JInt(24), suggested_team |-> "Support Team",
     confidence |-> 0]

TriageRequired ==
    {"category", "subcategory", "priority", "sla_hours", "suggested_team", "confidence"}

DefaultSla == 24

\* json.loads output of the triage call: sla_hours is tagged, the rest plain.
TriageObjects ==
    { [category |-> "Billing - Refund", subcategory |-> "Duplicate Charge",
       priority |-> "P1", sla_hours |-> JInt(4), suggested_team |-> "Finance Team",
       sentiment |-> "frustrated", confidence |-> 9],
      [category |-> "Technical - Login", subcategory |-> "Login",
       priority |-> "P3", sla_hours |-> JInt(0), suggested_team |-> "Technical Team",
       confidence |-> 3],
      [category |-> "Shipping", priority |-> "urgent", sla_hours |-> JStr("48")] }

TriageReplies ==
    {[kind |-> k, data |-> EmptyDict] : k \in {"raise", "badjson", "list"}}
    \cup {[kind |-> "json", data |-> d] : d \in TriageObjects}

\* The fallback table holds plain integers; tag them as json.loads would.
TagSla(d) == [d EXCEPT !.sla_hours = JInt(@)]

\* The triage validation with its two coercions left out.
validate_triage_uncoerced(triage_data) ==
    LET filled == FillMissing(triage_data, TriageRequired, get_default_value)
    IN [filled EXCEPT !.sla_hours = @.v]

validate_triage(triage_data) ==
    LET filled == FillMissing(triage_data, TriageRequired, get_default_value)
        prio == IF filled.priority \notin {"P1", "P2", "P3"}
                THEN [filled EXCEPT !.priority = "P2"] ELSE filled
    IN [prio EXCEPT !.sla_hours =
            IF @.t # "int" \/ @.v < 1 THEN DefaultSla ELSE @.v]

classify_triage(s, reply) ==
    LET intent == DictGet(s, "intent", EmptyDict)
        problem_type == DictGet(intent, "problem_type", "other")
        sentiment == DictGet(intent, "sentiment", "neutral")
    IN IF reply.kind \in NonObjectKinds
       THEN Put(AppendError(s, "Triage classification error"), "triage",
                get_fallback_triage("other", "neutral"))
       ELSE LET triage_data == IF reply.kind = "badjson"
                               THEN TagSla(get_fallback_triage(problem_type, sentiment))
                               ELSE reply.data
            IN Put(s, "triage", validate_triage(triage_data))

ClassifyTriage ==
    /\ pc = "classify_triage"
    /\ \E reply \in TriageReplies : state' = classify_triage(state, reply)
    /\ pc' = "expand_queries"
    /\ UNCHANGED <<method, response_templates, responses>>

\* ------------------------------------------------------- query expansion
\* str.lower() and len() on the words that occur in the modelled tickets.
Lower(w) == CASE w = "VPN" -> "vpn" [] w = "Please" -> "please" [] OTHER -> w

WordLength ==
    [w \in {"vpn", "not", "working", "at", "login", "i", "have", "been",
            "charged", "twice", "please", "delete", "account"} |->
        CASE w \in {"i"} -> 1
          [] w \in {"at"} -> 2
          [] w \in {"vpn", "not"} -> 3
          [] w \in {"have", "been"} -> 4
          [] w \in {"login", "twice"} -> 5
          [] w \in {"please", "delete"} -> 6
          [] w \in {"working", "charged", "account"} -> 7]

MapSeq(f(_), sq) == [i \in 1..Len(sq) |-> f(sq[i])]

FilterSeq(sq, Test(_)) == SelectSeq(sq, Test)

Take(sq, n) == SubSeq(sq, 1, IF n < Len(sq) THEN n ELSE Len(sq))

RECURSIVE Dedup(_, _)
Dedup(sq, seen) ==
    IF sq = <<>> THEN <<>>
    ELSE IF Head(sq) \in seen THEN Dedup(Tail(sq), seen)
         ELSE <<Head(sq)>> \o Dedup(Tail(sq), seen \cup {Head(sq)})

RECURSIVE FlattenSeq(_)
FlattenSeq(sq) == IF sq = <<>> THEN <<>> ELSE Head(sq) \o FlattenSeq(Tail(sq))

type_queries ==
    [billing |-> << <<"billing", "issue">>, <<"payment", "problem">>,
                    <<"invoice", "error">>, <<"charge", "dispute">> >>,
     technical |-> << <<"technical", "problem">>, <<"system", "error">>,
                      <<"login", "issue">>, <<"feature", "not", "working">> >>,
     account |-> << <<"account", "access">>, <<"password", "reset">>,
                    <<"profile", "update">>, <<"account", "settings">> >>,
     feature_request |-> << <<"new", "feature">>, <<"improvement", "request">>,
                            <<"enhancement", "suggestion">> >>,
     other |-> << <<"general", "inquiry">>, <<"help", "needed">>,
                  <<"support", "request">> >>]

StopWords == {"that", "this", "with", "from", "have", "been"}

KeyTermLen == 3

MaxKeyTerms == 5

UsedKeyTerms == 2

BaseQueryCount == 3

FallbackMinWords == 2

FallbackMaxWords == 8

MaxQueries == 5

MinWords == 3

MaxWords == 10

TermQueries(term) ==
    IF term \notin StopWords
    THEN << <<term, "issue">>, <<term, "problem">> >>
    ELSE <<>>

FallbackLengthOk(query) == FallbackMinWords <= Len(query) /\ Len(query) <= FallbackMaxWords

generate_fallback_queries(ticket_text, problem_type, category) ==
    LET words == MapSeq(Lower, ticket_text)
        IsLong(w) == WordLength[w] > KeyTermLen
        key_terms == Take(FilterSeq(words, IsLong), MaxKeyTerms)
        base_queries == DictGet(type_queries, problem_type, type_queries["other"])
        queries == Take(base_queries, BaseQueryCount)
                   \o FlattenSeq(MapSeq(TermQueries, Take(key_terms, UsedKeyTerms)))
        unique_queries == Dedup(FilterSeq(queries, FallbackLengthOk), {})
    IN Take(unique_queries, MaxQueries)

\* Items of the JSON list returned by the query-expansion call.
QStr(words) == [t |-> "str", v |-> words]

Q3 == QStr(<<"reset", "account", "password">>)

Q10 == QStr(<<"how", "do", "i", "reset", "my", "account", "password", "on", "the", "website">>)

Q11 == QStr(<<"how", "do", "i", "reset", "my", "account", "password", "on", "the", "new", "website">>)

Q2 == QStr(<<"login", "issue">>)

QueryLists ==
    { <<Q2, Q11, JInt(7)>>,
      <<Q2, Q3, Q10, Q11, Q3, Q10, Q3, Q3>> }

QueryReplies ==
    {[kind |-> k, data |-> <<>>] : k \in {"raise", "badjson", "dict"}}
    \cup {[kind |-> "list", data |-> l] : l \in QueryLists}

QueryValid(query) ==
    query.t = "str" /\ MinWords <= Len(query.v) /\ Len(query.v) <= MaxWords

QueryText(query) == query.v

expand_queries(s, reply) ==
    LET intent == DictGet(s, "intent", EmptyDict)
        triage == DictGet(s, "triage", EmptyDict)
        problem_type == DictGet(intent, "problem_type", "other")
        category == DictGet(triage, "category", "General Inquiry")
        ticket_text == s["original_message"]
    IN IF reply.kind = "raise"
       THEN Put(AppendError(s, "Query expansion error"), "search_queries",
                generate_fallback_queries(DictGet(s, "original_message", <<>>),
                                          "other", "General"))
       ELSE LET queries ==
                    IF reply.kind \in {"badjson", "dict"}
                    THEN MapSeq(QStr, generate_fallback_queries(ticket_text, problem_type, category))
                    ELSE reply.data
                validated_queries ==
                    Take(MapSeq(QueryText, FilterSeq(queries, QueryValid)), MaxQueries)
            IN Put(s, "search_queries",
                   IF validated_queries = <<>>
                   THEN generate_fallback_queries(ticket_text, problem_type, category)
                   ELSE validated_queries)

ExpandQueries ==
    /\ pc = "expand_queries"
    /\ \E reply \in QueryReplies : state' = expand_queries(state, reply)
    /\ pc' = "vector_search"
    /\ UNCHANGED <<method, response_templates, responses>>

\* --------------------------------------------------------- vector search
MaxDocs == 2

SearchScore == 8

\* Documents of the knowledge base in the order the vector store ranks them.
KnowledgeBase ==
    << [doc_id |-> "KB-1", title |-> "Refund policy", content |-> "text", url |-> "https://kb/1", category |-> "billing"],
       [doc_id |-> "KB-2", title |-> "Login help", content |-> "text", url |-> "https://kb/2", category |-> "technical"],
       [doc_id |-> "KB-3", title |-> "", content |-> "", url |-> "", category |-> ""],
       [doc_id |-> "KB-4", title |-> "Account", content |-> "text", url |-> "https://kb/4", category |-> "account"] >>

FormatDoc(doc) ==
    [doc_id |-> doc.doc_id, title |-> doc.title, content |-> doc.content,
     score |-> SearchScore, url |-> doc.url, category |-> doc.category]

SearchReplies ==
    {[kind |-> "raise", docs |-> <<>>]}
    \cup {[kind |-> "ok", docs |-> Take(KnowledgeBase, n)] :
            n \in 0..(IF MaxDocs < Len(KnowledgeBase) THEN MaxDocs ELSE Len(KnowledgeBase))}

vector_search_node(s, reply) ==
    LET queries == DictGet(s, "search_queries", <<>>)
    IN IF queries = <<>>
       THEN Put(s, "retrieved_docs", <<>>)
       ELSE IF reply.kind = "raise"
            THEN Put(AppendError(s, "Vector search error"), "retrieved_docs", <<>>)
            ELSE Put(s, "retrieved_docs", MapSeq(FormatDoc, reply.docs))

VectorSearch ==
    /\ pc = "vector_search"
    /\ \E reply \in SearchReplies : state' = vector_search_node(state, reply)
    /\ pc' = "rerank"
    /\ UNCHANGED <<method, response_templates, responses>>

\* ---------------------------------------------------------------- rerank
TopK == 3

MinRelevance == 3

FallbackScore == 5

ParseFailScore == 5

DefaultScore == 5

Clamp(x) == IF x < 0 THEN 0 ELSE IF x > 10 THEN 10 ELSE x

Relevance(doc) == DictGet(doc, "relevance_score", 0)

\* list.sort(key=relevance_score, reverse=True): stable, descending.
RECURSIVE InsertByRelevance(_, _)
InsertByRelevance(doc, sorted) ==
    IF sorted = <<>> THEN <<doc>>
    ELSE IF Relevance(Head(sorted)) >= Relevance(doc)
         THEN <<Head(sorted)>> \o InsertByRelevance(doc, Tail(sorted))
         ELSE <<doc>> \o sorted

RECURSIVE SortByRelevance(_)
SortByRelevance(docs) ==
    IF docs = <<>> THEN <<>>
    ELSE LET n == Len(docs)
         IN InsertByRelevance(docs[n], SortByRelevance(SubSeq(docs, 1, n - 1)))

HasText(doc) == ~(DictGet(doc, "title", "") = "" /\ DictGet(doc, "content", "") = "")

\* Reranker._rerank_cohere: [kind |-> "ok", docs |-> ...] or [kind |-> "raise"].
\* reply.results is the API's result list of [index, relevance_score],
\* index counted from 1 into the documents that have text.
rerank_cohere(documents, reply) ==
    LET doc_mapping == FilterSeq(documents, HasText)
        InRange(result) == result.index \in 1..Len(doc_mapping)
        Scored(result) == Put(doc_mapping[result.index], "relevance_score",
                              result.relevance_score)
    IN IF doc_mapping = <<>> THEN [kind |-> "ok", docs |-> <<>>]
       ELSE IF reply.kind = "raise" \/ \E i \in 1..Len(reply.results) : ~InRange(reply.results[i])
            THEN [kind |-> "raise", docs |-> <<>>]
            ELSE [kind |-> "ok", docs |-> MapSeq(Scored, reply.results)]

\* Reranker._rerank_llm.  "mutated" tells whether the caller's documents
\* were written to (the JSONDecodeError branch sets relevance_score on them).
rerank_llm(documents, reply, top_k) ==
    LET WithParseFail(doc) == Put(doc, "relevance_score", ParseFailScore)
        Known(ranking) == \E i \in 1..Len(documents) : documents[i].doc_id = ranking.doc_id
        FirstMatch(ranking) ==
            documents[CHOOSE i \in 1..Len(documents) :
                        /\ documents[i].doc_id = ranking.doc_id
                        /\ \A j \in 1..(i - 1) : documents[j].doc_id # ranking.doc_id]
        Scored(ranking) == Put(FirstMatch(ranking), "relevance_score",
                               Clamp(DictGet(ranking, "score", 0)))
    IN IF reply.kind \in {"raise", "dict"} THEN [kind |-> "raise", docs |-> <<>>, mutated |-> FALSE]
       ELSE IF reply.kind = "badjson"
            THEN [kind |-> "ok", docs |-> MapSeq(WithParseFail, documents), mutated |-> TRUE]
            ELSE [kind |-> "ok", mutated |-> FALSE,
                  docs |-> Take(SortByRelevance(MapSeq(Scored, FilterSeq(reply.rankings, Known))),
                                top_k)]

DocScore(doc) == DictGet(doc, "relevance_score", DictGet(doc, "score", DefaultScore))

\* The relevance filter letting every document through.
RelevantUnfiltered(doc) == DocScore(doc) >= 0

Relevant(doc) == DocScore(doc) >= MinRelevance

SetScore(doc) == Put(doc, "score", DocScore(doc))

SetFallbackScore(doc) == Put(doc, "score", FallbackScore)

\* Reranker.rerank: returns the reranked list and the caller's document
\* list as it is left (the dicts in it are shared with retrieved_docs).
rerank(m, documents, reply, top_k) ==
    LET inner == IF m = "cohere"
                 THEN rerank_cohere(documents, reply) @@ [mutated |-> FALSE]
                 ELSE rerank_llm(documents, reply, top_k)
    IN IF inner.kind = "raise"
       THEN LET left == MapSeq(SetFallbackScore, Take(documents, top_k))
                        \o SubSeq(documents, top_k + 1, Len(documents))
            IN [returned |-> Take(left, top_k), documents |-> left]
       ELSE LET scored_docs == MapSeq(SetScore, FilterSeq(inner.docs, Relevant))
            IN [returned |-> Take(scored_docs, top_k),
                documents |-> IF inner.mutated THEN scored_docs ELSE documents]

\* Replies of the rerank capability for n documents.
CohereResultLists(n) ==
    { [i \in 1..n |-> [index |-> i, relevance_score |-> IF i = 1 THEN 2 ELSE 7]],
      [i \in 1..n |-> [index |-> n + 1 - i, relevance_score |-> IF i = 1 THEN 9 ELSE 3]],
      << [index |-> n + 1, relevance_score |-> 9] >> }

CohereReplies(n) ==
    {[kind |-> "raise", results |-> <<>>]}
    \cup {[kind |-> "ok", results |-> r] : r \in CohereResultLists(n)}

LlmRankingLists(documents) ==
    LET n == Len(documents)
    IN { [i \in 1..n |-> [doc_id |-> documents[i].doc_id, score |-> IF i = 1 THEN 2 ELSE 7]],
         [i \in 1..n |-> [doc_id |-> documents[n + 1 - i].doc_id, score |-> IF i = 1 THEN 12 ELSE 3]],
         << [doc_id |-> "KB-0", score |-> 9], [doc_id |-> documents[1].doc_id] >>,
         [i \in 1..n |-> [doc_id |-> documents[n + 1 - i].doc_id, score |-> 7]] }

LlmReplies(documents) ==
    {[kind |-> k, rankings |-> <<>>] : k \in {"raise", "badjson", "dict"}}
    \cup {[kind |-> "ok", rankings |-> r] : r \in LlmRankingLists(documents)}

RerankReplies(m, documents) ==
    IF documents = <<>> THEN {[kind |-> "raise", results |-> <<>>, rankings |-> <<>>]}
    ELSE IF m = "cohere"
    THEN {[kind |-> r.kind, results |-> r.results, rankings |-> <<>>] :
            r \in CohereReplies(Len(FilterSeq(documents, HasText)))}
    ELSE {[kind |-> r.kind, results |-> <<>>, rankings |-> r.rankings] :
            r \in LlmReplies(documents)}

rerank_node(s, m, reply) ==
    LET retrieved_docs == DictGet(s, "retrieved_docs", <<>>)
        search_queries == DictGet(s, "search_queries", <<>>)
    IN IF retrieved_docs = <<>> \/ search_queries = <<>>
       THEN Put(s, "reranked_docs", retrieved_docs)
       ELSE LET r == rerank(m, retrieved_docs, reply, TopK)
            IN Put(Put(s, "retrieved_docs", r.documents), "reranked_docs", r.returned)

\* The rerank node with an edge that skips the draft stage.
RerankSkippingDraft ==
    /\ pc = "rerank"
    /\ \E reply \in RerankReplies(method, DictGet(state, "retrieved_docs", <<>>)) :
          state' = rerank_node(state, method, reply)
    /\ pc' = "check_policy"
    /\ UNCHANGED <<method, response_templates, responses>>

Rerank ==
    /\ pc = "rerank"
    /\ \E reply \in RerankReplies(method, DictGet(state, "retrieved_docs", <<>>)) :
          state' = rerank_node(state, method, reply)
    /\ pc' = "generate_draft"
    /\ UNCHANGED <<method, response_templates, responses>>

\* ------------------------------------------------------- response drafts
\* Template bodies keep their placeholders, every phrase a policy pattern
\* can match and their signature; the remaining prose is one word per clause.
RESPONSE_TEMPLATES ==
    [billing_invoice |->
        [greeting |-> <<"Dear", "{customer_name}">>,
         body_template |-> <<"billing-thanks", "regarding", "your", "{issue_description}",
                             "review", "of", "your", "account", "within", "24", "hours",
                             "resolution", "typically", "within", "3-5", "business", "days",
                             "Best", "regards", "NL", "Support", "Team">>,
         tone |-> "professional_helpful"],
     billing_refund |->
        [greeting |-> <<"Dear", "{customer_name}">>,
         body_template |-> <<"duplicate", "charges", "can", "be", "frustrating",
                             "process", "any", "necessary", "adjustments",
                             "Best", "regards", "NL", "Support", "Team">>,
         tone |-> "empathetic_professional"],
     technical_login |->
        [greeting |-> <<"Dear", "{customer_name}">>,
         body_template |-> <<"trouble", "accessing", "your", "account",
                             "recent", "changes", "to", "your", "account",
                             "Best", "regards", "NL", "Support", "Team">>,
         tone |-> "helpful_supportive"],
     account_access |->
        [greeting |-> <<"Dear", "{customer_name}">>,
         body_template |-> <<"reaching", "out", "about", "your", "account", "access",
                             "your", "account", "email", "address",
                             "Best", "regards", "NL", "Support", "Team">>,
         tone |-> "professional_helpful"],
     feature_request |->
        [greeting |-> <<"Dear", "{customer_name}">>,
         body_template |-> <<"thank", "you", "for", "your", "suggestion",
                             "feedback", "about", "{feature_description}",
                             "Best", "regards", "NL", "Support", "Team">>,
         tone |-> "friendly_appreciative"]]

category_mapping ==
    [c \in {"Billing - Invoice Issue", "Billing - Refund", "Technical - Login",
            "Account - Access", "Feature Request"} |->
        CASE c = "Billing - Invoice Issue" -> "billing_invoice"
          [] c = "Billing - Refund" -> "billing_refund"
          [] c = "Technical - Login" -> "technical_login"
          [] c = "Account - Access" -> "account_access"
          [] c = "Feature Request" -> "feature_request"]

template_key(category) == DictGet(category_mapping, category, "account_access")

\* templates is RESPONSE_TEMPLATES as the call finds it.
get_response_template(templates, category) ==
    DictGet(templates, template_key(category), templates["account_access"])

\* str.format: replace each placeholder by its value.
FormatText(text, values) ==
    LET Subst(w) == IF w \in DOMAIN values THEN values[w] ELSE <<w>>
    IN FlattenSeq(MapSeq(Subst, text))

format_response_template(template, customer_name, issue_description, feature_description) ==
    LET values == [k \in {"{customer_name}", "{issue_description}", "{feature_description}"} |->
                     CASE k = "{customer_name}" -> customer_name
                       [] k = "{issue_description}" -> issue_description
                       [] k = "{feature_description}" -> feature_description]
    IN [template EXCEPT !.greeting = FormatText(@, values),
                        !.body_template = FormatText(@, values)]

TONE_ADJUSTMENTS ==
    [frustrated |-> [add_empathy |-> TRUE, use_apology |-> TRUE, be_reassuring |-> TRUE],
     neutral |-> [add_empathy |-> FALSE, use_apology |-> FALSE, be_reassuring |-> TRUE],
     satisfied |-> [add_empathy |-> FALSE, use_apology |-> FALSE, be_reassuring |-> FALSE]]

EmpathyClause == <<"i", "understand", "this", "can", "be", "frustrating">>

ApologyClause == <<"i'm", "sorry", "for", "the", "inconvenience">>

ReassuranceClause == <<"NL", "NL", "rest", "assured", "we're", "here", "to", "help">>

adjust_tone_for_sentiment(base_template, sentiment) ==
    LET adjustments == DictGet(TONE_ADJUSTMENTS, sentiment, TONE_ADJUSTMENTS["neutral"])
        b1 == IF adjustments.add_empathy
              THEN EmpathyClause \o base_template.body_template
              ELSE base_template.body_template
        b2 == IF adjustments.use_apology THEN ApologyClause \o b1 ELSE b1
        b3 == IF adjustments.be_reassuring THEN b2 \o ReassuranceClause ELSE b2
    IN [base_template EXCEPT !.body_template = b3]

\* An e-mail address is the sequence of its name parts and separators.
NameLength ==
    [w \in {"john", "doe", "x", "example.com", "j"} |->
        CASE w = "john" -> 4 [] w = "doe" -> 3 [] w = "example.com" -> 11 [] OTHER -> 1]

Capitalize(w) == CASE w = "john" -> "John" [] w = "doe" -> "Doe" [] w = "x" -> "X"
                   [] w = "j" -> "J" [] OTHER -> w

IndexOf(sq, x) == CHOOSE i \in 1..Len(sq) : sq[i] = x /\ \A j \in 1..(i - 1) : sq[j] # x

InSeq(sq, x) == \E i \in 1..Len(sq) : sq[i] = x

extract_customer_name(email) ==
    IF email = <<>> \/ ~InSeq(email, "@") THEN <<"Customer">>
    ELSE LET local_part == SubSeq(email, 1, IndexOf(email, "@") - 1)
             IsPart(w) == w # "."
             LongPart(w) == NameLength[w] > 1
             name_parts == MapSeq(Capitalize, FilterSeq(FilterSeq(local_part, IsPart), LongPart))
             name == MapSeq(Capitalize, local_part)
             Chars(w) == IF w = "." THEN 1 ELSE NameLength[w]
             total == IF name = <<>> THEN 0
                      ELSE IF Len(name) > 1 THEN 2 ELSE Chars(local_part[1])
         IN IF InSeq(local_part, ".") /\ name_parts # <<>> THEN name_parts
            ELSE IF total > 1 THEN name ELSE <<"Customer">>

MaxCitedDocs == 3

Closing == <<"Best", "regards", "NL", "Support", "Team">>

generate_template_draft(templates, customer_name, category, sentiment, reranked_docs, triage) ==
    LET template == get_response_template(templates, category)
        adjusted_template == adjust_tone_for_sentiment(template, sentiment)
        formatted == format_response_template(adjusted_template, customer_name,
                                              <<"your", "inquiry">>, <<"this", "feature">>)
        Cite(doc) == DictGet(doc, "doc_id", "KB-000")
        citations == MapSeq(Cite, Take(reranked_docs, MaxCitedDocs))
        body == IF reranked_docs # <<>>
                THEN formatted.body_template
                     \o <<"NL", "NL", "for", "more", "information", "please", "see">> \o citations
                ELSE formatted.body_template
    IN [greeting |-> formatted.greeting, body |-> body, closing |-> Closing,
        tone |-> adjusted_template.tone]

get_default_draft_value ==
    [greeting |-> <<"Dear", "Customer">>,
     body |-> <<"thank", "you", "for", "your", "inquiry", "we're", "reviewing", "your",
                "request">>,
     closing |-> Closing,
     tone |-> "professional"]

DraftObjects ==
    { [greeting |-> <<"Dear", "John">>, body |-> <<"we", "are", "looking", "into", "it">>,
       closing |-> <<"Regards">>, tone |-> "professional"],
      [greeting |-> <<"Hello">>, body |-> <<"We", "will", "Refund", "you", "today">>,
       closing |-> <<"Regards">>, tone |-> "empathetic"],
      [greeting |-> <<"sorry", "we", "will">>,
       body |-> <<"refund", "options", "exist", "or", "close", "account", "resolved", "by",
                  "friday">>] }

DraftReplies ==
    {[kind |-> k, data |-> EmptyDict] : k \in {"raise", "badjson", "list"}}
    \cup {[kind |-> "json", data |-> d] : d \in DraftObjects}

\* The draft stage without the filling of missing fields.
generate_draft_undefaulted(s, reply, templates) ==
    LET intent == DictGet(s, "intent", EmptyDict)
        triage == DictGet(s, "triage", EmptyDict)
        reranked_docs == DictGet(s, "reranked_docs", <<>>)
        sentiment == DictGet(intent, "sentiment", "neutral")
        category == DictGet(triage, "category", "General Inquiry")
        customer_email == DictGet(s, "customer_email", <<>>)
        customer_name == IF customer_email # <<>> THEN extract_customer_name(customer_email)
                         ELSE <<"Customer">>
    IN IF reply.kind \in NonObjectKinds
       THEN Put(AppendError(s, "Draft generation error"), "draft",
                generate_template_draft(templates, <<"Customer">>, "General", "neutral", <<>>, EmptyDict))
       ELSE Put(s, "draft",
                IF reply.kind = "badjson"
                THEN generate_template_draft(templates, customer_name, category, sentiment,
                                             reranked_docs, triage)
                ELSE reply.data)

generate_draft(s, reply, templates) ==
    LET intent == DictGet(s, "intent", EmptyDict)
        triage == DictGet(s, "triage", EmptyDict)
        reranked_docs == DictGet(s, "reranked_docs", <<>>)
        sentiment == DictGet(intent, "sentiment", "neutral")
        category == DictGet(triage, "category", "General Inquiry")
        customer_email == DictGet(s, "customer_email", <<>>)
        customer_name == IF customer_email # <<>> THEN extract_customer_name(customer_email)
                         ELSE <<"Customer">>
    IN IF reply.kind \in NonObjectKinds
       THEN Put(AppendError(s, "Draft generation error"), "draft",
                generate_template_draft(templates, <<"Customer">>, "General", "neutral", <<>>, EmptyDict))
       ELSE LET draft_data ==
                    IF reply.kind = "badjson"
                    THEN generate_template_draft(templates, customer_name, category, sentiment,
                                                 reranked_docs, triage)
                    ELSE reply.data
            IN Put(s, "draft",
                   FillMissing(draft_data, {"greeting", "body", "closing", "tone"},
                               get_default_draft_value))

\* adjust_tone_for_sentiment writes into base_template.copy(): the object it
\* was handed, an entry of RESPONSE_TEMPLATES, is left as it was.
base_template_adjusted_in_place(base_template, sentiment) ==
    adjust_tone_for_sentiment(base_template, sentiment)

base_template_after_adjust(base_template, sentiment) == base_template

\* generate_template_draft with no copy made on the way: the adjusted and
\* formatted template is written into the entry of RESPONSE_TEMPLATES.
templates_after_template_draft_in_place(templates, category, sentiment) ==
    LET key == IF Has(templates, template_key(category)) THEN template_key(category)
               ELSE "account_access"
    IN [templates EXCEPT ![key] =
            format_response_template(adjust_tone_for_sentiment(@, sentiment),
                                     <<"Customer">>, <<"your", "inquiry">>,
                                     <<"this", "feature">>)]

\* RESPONSE_TEMPLATES as generate_template_draft leaves it.
templates_after_template_draft(templates, category, sentiment) ==
    LET key == IF Has(templates, template_key(category)) THEN template_key(category)
               ELSE "account_access"
    IN [templates EXCEPT ![key] = base_template_after_adjust(@, sentiment)]

\* RESPONSE_TEMPLATES as the draft stage leaves it.
templates_after_draft(s, reply, templates) ==
    LET intent == DictGet(s, "intent", EmptyDict)
        triage == DictGet(s, "triage", EmptyDict)
        sentiment == DictGet(intent, "sentiment", "neutral")
        category == DictGet(triage, "category", "General Inquiry")
    IN IF reply.kind \in NonObjectKinds
       THEN templates_after_template_draft(templates, "General", "neutral")
       ELSE IF reply.kind = "badjson"
            THEN templates_after_template_draft(templates, category, sentiment)
            ELSE templates

GenerateDraft ==
    /\ pc = "generate_draft"
    /\ \E reply \in DraftReplies :
          /\ state' = generate_draft(state, reply, response_templates)
          /\ response_templates' = templates_after_draft(state, reply, response_templates)
    /\ pc' = "check_policy"
    /\ UNCHANGED <<method, responses>>

\* ---------------------------------------------------------- policy check
\* re.search(pattern, draft, re.IGNORECASE) on word level: the pattern's
\* words occur consecutively in the lower-cased text; "\d+" is one number.
LowerWord(w) == CASE w = "We" -> "we" [] w = "Refund" -> "refund" [] w = "Dear" -> "dear"
                  [] w = "Best" -> "best" [] OTHER -> w

IsNumber(w) == w \in {"24", "3", "48", "4"}

WordMatches(p, w) == IF p = "\\d+" THEN IsNumber(w) ELSE p = LowerWord(w)

Search(pattern, text) ==
    \E i \in 1..(Len(text) - Len(pattern) + 1) :
        \A j \in 1..Len(pattern) : WordMatches(pattern[j], text[i + j - 1])

refund_patterns ==
    << <<"we", "will", "refund">>, <<"refund", "you">>,
       <<"process", "your", "refund">>, <<"refund", "will", "be", "issued">> >>

sla_patterns ==
    << <<"within", "\\d+", "hours">>, <<"fixed", "in", "\\d+", "days">>,
       <<"resolved", "by">>, <<"guaranteed">> >>

escalation_keywords ==
    << <<"legal", "action">>, <<"lawyer">>, <<"court">>, <<"cancel", "account">>,
       <<"close", "account">>, <<"delete", "account">> >>

AnyMatch(patterns, text) == \E i \in 1..Len(patterns) : Search(patterns[i], text)

check_policy_violations(draft) ==
    LET Hit(keyword) == Search(keyword, draft)
    IN [refund_promise |-> AnyMatch(refund_patterns, draft),
        sla_promise |-> AnyMatch(sla_patterns, draft),
        escalation_triggers |-> FilterSeq(escalation_keywords, Hit)]

RenderDraft(draft) ==
    DictGet(draft, "greeting", <<>>) \o <<"NL", "NL">> \o DictGet(draft, "body", <<>>)
    \o <<"NL", "NL">> \o DictGet(draft, "closing", <<>>)

LlmPolicyDefault ==
    [refund_promise |-> FALSE, sla_mentioned |-> FALSE, escalation_needed |-> FALSE,
     compliance |-> "passed", violations |-> [t |-> "list", v |-> <<>>]]

JList(l) == [t |-> "list", v |-> l]

PolicyObjects ==
    { LlmPolicyDefault,
      [refund_promise |-> TRUE, compliance |-> "passed",
       violations |-> JList(<< <<"refund", "hinted">> >>)],
      [refund_promise |-> FALSE, sla_mentioned |-> TRUE, escalation_needed |-> TRUE,
       compliance |-> "failed", violations |-> JList(<< <<"needs", "review">> >>)],
      [compliance |-> "passed", violations |-> JStr("none")] }

PolicyReplies ==
    {[kind |-> k, data |-> EmptyDict] : k \in {"raise", "badjson", "list"}}
    \cup {[kind |-> "json", data |-> d] : d \in PolicyObjects}

\* Result of perform_llm_policy_check: kind "dict" with the object, or
\* kind "other" for parsed JSON that is not an object.
perform_llm_policy_check(reply) ==
    IF reply.kind \in {"raise", "badjson"} THEN [kind |-> "dict", data |-> LlmPolicyDefault]
    ELSE IF reply.kind = "list" THEN [kind |-> "other", data |-> EmptyDict]
    ELSE [kind |-> "dict", data |-> reply.data]

\* A policy error result that lets the draft pass.
PolicyErrorOpen ==
    [refund_promise |-> FALSE, sla_mentioned |-> FALSE, escalation_needed |-> FALSE,
     compliance |-> "passed",
     violations |-> << <<"Policy", "check", "failed", "-", "manual", "review", "required">> >>]

PolicyErrorDefault ==
    [refund_promise |-> FALSE, sla_mentioned |-> FALSE, escalation_needed |-> TRUE,
     compliance |-> "failed",
     violations |-> << <<"Policy", "check", "failed", "-", "manual", "review", "required">> >>]

Compliance(rule_based_checks, llm_checks) ==
    IF ~(\/ DictGet(rule_based_checks, "refund_promise", FALSE)
         \/ DictGet(rule_based_checks, "escalation_needed", FALSE)
         \/ DictGet(llm_checks, "compliance", "passed") = "failed")
    THEN "passed" ELSE "failed"

check_policies(s, reply) ==
    LET draft == DictGet(s, "draft", EmptyDict)
        draft_text == RenderDraft(draft)
        rule_based_checks == check_policy_violations(draft_text)
        llm == perform_llm_policy_check(reply)
        llm_checks == llm.data
        llm_violations == DictGet(llm_checks, "violations", JList(<<>>))
    IN IF llm.kind # "dict" \/ llm_violations.t # "list"
       THEN Put(AppendError(s, "Policy check error"), "policy_check", PolicyErrorDefault)
       ELSE Put(s, "policy_check",
                [refund_promise |-> DictGet(rule_based_checks, "refund_promise", FALSE)
                                    \/ DictGet(llm_checks, "refund_promise", FALSE),
                 sla_mentioned |-> DictGet(rule_based_checks, "sla_mentioned", FALSE)
                                   \/ DictGet(llm_checks, "sla_mentioned", FALSE),
                 escalation_needed |-> DictGet(rule_based_checks, "escalation_needed", FALSE)
                                       \/ DictGet(llm_checks, "escalation_needed", FALSE),
                 compliance |-> Compliance(rule_based_checks, llm_checks),
                 violations |-> DictGet(rule_based_checks, "escalation_triggers", <<>>)
                                \o llm_violations.v])

\* ------------------------------------------------------- escalation gate
END == "END"

ConfidenceThreshold == 5

MissingConfidence == 10

\* The gate without its confidence test.
should_escalate_ignoring_confidence(s) ==
    LET policy_check == DictGet(s, "policy_check", EmptyDict)
        errors == DictGet(s, "errors", <<>>)
    IN IF DictGet(policy_check, "compliance", "") = "failed" THEN END
       ELSE IF errors # <<>> THEN END
       ELSE "validate_output"

\* The gate without its policy test.
should_escalate_ignoring_policy(s) ==
    LET errors == DictGet(s, "errors", <<>>)
        triage == DictGet(s, "triage", EmptyDict)
    IN IF errors # <<>> THEN END
       ELSE IF DictGet(triage, "confidence", MissingConfidence) < ConfidenceThreshold THEN END
       ELSE "validate_output"

\* The gate without its errors test.
should_escalate_ignoring_errors(s) ==
    LET policy_check == DictGet(s, "policy_check", EmptyDict)
        triage == DictGet(s, "triage", EmptyDict)
    IN IF DictGet(policy_check, "compliance", "") = "failed" THEN END
       ELSE IF DictGet(triage, "confidence", MissingConfidence) < ConfidenceThreshold THEN END
       ELSE "validate_output"

\* The gate with a confidence test that is not strict.
should_escalate_at_threshold(s) ==
    LET policy_check == DictGet(s, "policy_check", EmptyDict)
        errors == DictGet(s, "errors", <<>>)
        triage == DictGet(s, "triage", EmptyDict)
    IN IF DictGet(policy_check, "compliance", "") = "failed" THEN END
       ELSE IF errors # <<>> THEN END
       ELSE IF DictGet(triage, "confidence", MissingConfidence) <= ConfidenceThreshold THEN END
       ELSE "validate_output"

should_escalate(s) ==
    LET policy_check == DictGet(s, "policy_check", EmptyDict)
        errors == DictGet(s, "errors", <<>>)
        triage == DictGet(s, "triage", EmptyDict)
    IN IF DictGet(policy_check, "compliance", "") = "failed" THEN END
       ELSE IF errors # <<>> THEN END
       ELSE IF DictGet(triage, "confidence", MissingConfidence) < ConfidenceThreshold THEN END
       ELSE "validate_output"

\* check_policy node followed by the conditional edge leaving it.
CheckPolicy ==
    /\ pc = "check_policy"
    /\ \E reply \in PolicyReplies : state' = check_policies(state, reply)
    /\ pc' = should_escalate(state')
    /\ UNCHANGED <<method, response_templates, responses>>

\* -------------------------------------------------------- output schema
NoneValue == [t |-> "none"]

IsDatetime(x) == x.t = "datetime"

Priorities == {"P1", "P2", "P3"}

Sentiments == {"frustrated", "neutral", "satisfied"}

UnitInterval == 0..10

TriageOutputFields ==
    {"category", "subcategory", "priority", "sla_hours", "suggested_team", "sentiment",
     "confidence"}

ValidTriageOutput(t) ==
    /\ TriageOutputFields \subseteq DOMAIN t
    /\ t.priority \in Priorities
    /\ t.sla_hours \in Int
    /\ t.sentiment \in Sentiments
    /\ t.confidence \in UnitInterval

AnswerDraftFields == {"greeting", "body", "closing", "tone"}

ValidAnswerDraft(d) == AnswerDraftFields \subseteq DOMAIN d

CitationFields == {"doc_id", "chunk_id", "title", "score", "url"}

ValidCitation(c) ==
    /\ CitationFields \subseteq DOMAIN c
    /\ c.score \in UnitInterval
    /\ c.url # ""

PolicyCheckFields == {"refund_promise", "sla_mentioned", "escalation_needed", "compliance"}

ValidPolicyCheck(p) ==
    /\ PolicyCheckFields \subseteq DOMAIN p
    /\ p.refund_promise \in BOOLEAN
    /\ p.sla_mentioned \in BOOLEAN
    /\ p.escalation_needed \in BOOLEAN
    /\ p.compliance \in {"passed", "failed"}

\* SupportAgentOutput(**final_output) succeeds.
SchemaValid(final_output) ==
    /\ {"ticket_id", "triage", "answer_draft", "citations", "policy_check"}
           \subseteq DOMAIN final_output
    /\ (Has(final_output, "timestamp") => IsDatetime(final_output.timestamp))
    /\ ValidTriageOutput(final_output.triage)
    /\ ValidAnswerDraft(final_output.answer_draft)
    /\ \A i \in 1..Len(final_output.citations) : ValidCitation(final_output.citations[i])
    /\ ValidPolicyCheck(final_output.policy_check)

Restrict(d, fields) == [k \in fields |-> d[k]]

\* model_dump() of the validated output: the schema's fields only.
ModelDump(final_output) ==
    [ticket_id |-> final_output.ticket_id,
     timestamp |-> DictGet(final_output, "timestamp", [t |-> "datetime"]),
     triage |-> Restrict(final_output.triage, TriageOutputFields),
     answer_draft |-> Restrict(final_output.answer_draft, AnswerDraftFields),
     citations |-> final_output.citations,
     policy_check |-> Restrict(final_output.policy_check, PolicyCheckFields)]

AssembleOutput(s) ==
    [ticket_id |-> DictGet(s, "ticket_id", "unknown"),
     timestamp |-> DictGet(s, "timestamp", NoneValue),
     triage |-> DictGet(s, "triage", EmptyDict),
     answer_draft |-> DictGet(s, "draft", EmptyDict),
     citations |-> DictGet(s, "citations", <<>>),
     policy_check |-> DictGet(s, "policy_check", EmptyDict)]

validate_output_node(s) ==
    LET final_output == AssembleOutput(s)
    IN IF SchemaValid(final_output)
       THEN Put(s, "final_output", ModelDump(final_output))
       ELSE Put(AppendError(s, "Output validation error"), "final_output", final_output)

ValidateOutput ==
    /\ pc = "validate_output"
    /\ state' = validate_output_node(state)
    /\ pc' = END
    /\ UNCHANGED <<method, response_templates, responses>>

\* ---------------------------------------------------------- process_ticket
\* What process_ticket does with the workflow's final state: it returns the
\* validated output or re-raises the exception it caught.
process_ticket(result) ==
    IF ~Has(result, "final_output")
    THEN [kind |-> "raised", error |-> "ValueError: Workflow did not produce final_output"]
    ELSE IF SchemaValid(result.final_output)
         THEN [kind |-> "returned", error |-> ""]
         ELSE [kind |-> "raised", error |-> "ValidationError"]

\* ------------------------------------------------------------------ spec
Init ==
    /\ \E t \in Tickets : state = InitialState(t)
    /\ pc = "detect_intent"
    /\ method \in {"cohere", "llm"}
    /\ response_templates = RESPONSE_TEMPLATES
    /\ responses = <<>>

Next ==
    \/ DetectIntent
    \/ ClassifyTriage
    \/ ExpandQueries
    \/ VectorSearch
    \/ Rerank
    \/ GenerateDraft
    \/ CheckPolicy
    \/ ValidateOutput

Spec == Init /\ [][Next]_vars

\* ---------------------------------------------------- concurrent tickets
\* Several process_ticket calls in one process: each call owns its initial
\* state and its compiled workflow, and all of them see the same module-level
\* objects.  state, pc and responses hold one entry per run; the steps of
\* different runs interleave at the stages' awaits.  Every capability is
\* in a fallback here: the parsing stages get unparseable replies (the draft
\* call may also fail), the search fails or finds nothing.
MaxRuns == 2

Runs == 1..MaxRuns

\* Replies that force a stage into a fallback.
FallbackKinds == {"raise", "badjson"}

Forced(replies) == {reply \in replies : reply.kind \in FallbackKinds}

Unparseable(replies) == {reply \in replies : reply.kind = "badjson"}

NoDocuments == [kind |-> "ok", docs |-> <<>>]

RunStep(r, s, node, reply) ==
    /\ state' = [state EXCEPT ![r] = s]
    /\ pc' = [pc EXCEPT ![r] = node]
    /\ responses' = [responses EXCEPT ![r] = Append(@, reply)]

RunDetectIntent ==
    \E r \in Runs :
        /\ pc[r] = "detect_intent"
        /\ \E reply \in Unparseable(IntentReplies) :
              RunStep(r, detect_intent(state[r], reply), "classify_triage", reply)
        /\ UNCHANGED <<method, response_templates>>

RunClassifyTriage ==
    \E r \in Runs :
        /\ pc[r] = "classify_triage"
        /\ \E reply \in Unparseable(TriageReplies) :
              RunStep(r, classify_triage(state[r], reply), "expand_queries", reply)
        /\ UNCHANGED <<method, response_templates>>

RunExpandQueries ==
    \E r \in Runs :
        /\ pc[r] = "expand_queries"
        /\ \E reply \in Unparseable(QueryReplies) :
              RunStep(r, expand_queries(state[r], reply), "vector_search", reply)
        /\ UNCHANGED <<method, response_templates>>

RunVectorSearch ==
    \E r \in Runs :
        /\ pc[r] = "vector_search"
        /\ \E reply \in {x \in SearchReplies : x.kind = "raise" \/ x = NoDocuments} :
              RunStep(r, vector_search_node(state[r], reply), "rerank", reply)
        /\ UNCHANGED <<method, response_templates>>

RunRerank ==
    \E r \in Runs :
        /\ pc[r] = "rerank"
        /\ \E reply \in RerankReplies(method, DictGet(state[r], "retrieved_docs", <<>>)) :
              RunStep(r, rerank_node(state[r], method, reply), "generate_draft", reply)
        /\ UNCHANGED <<method, response_templates>>

RunGenerateDraft ==
    \E r \in Runs :
        /\ pc[r] = "generate_draft"
        /\ \E reply \in Forced(DraftReplies) :
              /\ RunStep(r, generate_draft(state[r], reply, response_templates),
                         "check_policy", reply)
              /\ response_templates' =
                    templates_after_draft(state[r], reply, response_templates)
        /\ UNCHANGED method

RunCheckPolicy ==
    \E r \in Runs :
        /\ pc[r] = "check_policy"
        /\ \E reply \in Unparseable(PolicyReplies) :
              LET s == check_policies(state[r], reply)
              IN RunStep(r, s, should_escalate(s), reply)
        /\ UNCHANGED <<method, response_templates>>

RunValidateOutput ==
    \E r \in Runs :
        /\ pc[r] = "validate_output"
        /\ state' = [state EXCEPT ![r] = validate_output_node(state[r])]
        /\ pc' = [pc EXCEPT ![r] = END]
        /\ UNCHANGED <<method, response_templates, responses>>

ConcurrentInit ==
    /\ state \in [Runs -> {InitialState(t) : t \in Tickets}]
    /\ pc = [r \in Runs |-> "detect_intent"]
    /\ method = "cohere"
    /\ response_templates = RESPONSE_TEMPLATES
    /\ responses = [r \in Runs |-> <<>>]

ConcurrentNext ==
    \/ RunDetectIntent
    \/ RunClassifyTriage
    \/ RunExpandQueries
    \/ RunVectorSearch
    \/ RunRerank
    \/ RunGenerateDraft
    \/ RunCheckPolicy
    \/ RunValidateOutput

ConcurrentSpec == ConcurrentInit /\ [][ConcurrentNext]_vars

\* ================================================================ claims
Terminal == pc = END

Escalated == pc = END /\ ~Has(state, "final_output")

\* C1: the gate leaving the policy stage returns END exactly when the state
\* it is evaluated on has policy_check.compliance = "failed", or a non-empty
\* errors list, or triage.confidence < 0.5, and validate_output otherwise.
MustEscalate(s) ==
    \/ s["policy_check"].compliance = "failed"
    \/ Len(s["errors"]) > 0
    \/ s["triage"].confidence < 5

C1_GateDecision ==
    [][pc = "check_policy" =>
          /\ MustEscalate(state') <=> pc' = END
          /\ ~MustEscalate(state') <=> pc' = "validate_output"]_vars

C1_Witness ==
    /\ Escalated
    /\ state["triage"].confidence < 5
    /\ state["policy_check"].compliance = "passed"
    /\ state["errors"] = <<>>

\* C2: once the policy stage has set compliance = "failed", validate_output
\* is never the current node and the state holds no final_output.
C2_NoOutputOnPolicyFailure ==
    (Has(state, "policy_check") /\ state["policy_check"].compliance = "failed")
        => (pc # "validate_output" /\ ~Has(state, "final_output"))

C2_Witness ==
    /\ Terminal
    /\ state["policy_check"].compliance = "failed"
    /\ state["errors"] = <<>>
    /\ state["triage"].confidence >= 5

\* C3: whenever the rendered draft matches a rule-based refund-promise
\* pattern, the policy result has refund_promise = TRUE and compliance =
\* "failed" and the run escalates without output, whatever the semantic
\* check returned.
DraftPromisesRefund(s) == AnyMatch(refund_patterns, RenderDraft(s["draft"]))

C3_RefundPromiseFlagged ==
    (Has(state, "policy_check") /\ DraftPromisesRefund(state))
        => /\ state["policy_check"].refund_promise = TRUE
           /\ state["policy_check"].compliance = "failed"
           /\ Escalated

\* C4: a run in which every capability call failed ends in a terminal state
\* and process_ticket raises nothing.
EveryCallFailed(s) ==
    /\ s["errors"] = <<"Intent detection error", "Triage classification error",
                       "Query expansion error", "Vector search error",
                       "Draft generation error">>
    /\ Has(s, "policy_check")
    /\ s["policy_check"].violations = <<>>

C4_TotalFallbackSafety ==
    (Terminal /\ EveryCallFailed(state)) => process_ticket(state).kind # "raised"

\* C5: at the end of every run process_ticket returns a structured result
\* (a draft output or an escalation record) and raises nothing.
C5_StructuredResult == Terminal => process_ticket(state).kind = "returned"

\* C6: every final_output present in a terminal state satisfies the output
\* schema (a failed validation leaves no final_output).
C6_EmittedOutputValid ==
    (Terminal /\ Has(state, "final_output")) => SchemaValid(state["final_output"])

\* C7: in every policy result compliance = "failed" holds whenever the
\* refund_promise or the escalation_needed flag is true.
C7_ComplianceMatchesFlags ==
    Has(state, "policy_check") =>
        ((state["policy_check"].refund_promise \/ state["policy_check"].escalation_needed)
            => state["policy_check"].compliance = "failed")

\* C8: no document with score < 0.3 is in reranked_docs once the rerank
\* stage has run.
C8_RerankFloor ==
    Has(state, "reranked_docs") =>
        \A i \in 1..Len(state["reranked_docs"]) : state["reranked_docs"][i].score >= 3

C8_Witness ==
    /\ pc = "generate_draft"
    /\ Len(state["retrieved_docs"]) = 2
    /\ Len(state["reranked_docs"]) = 1
    /\ state["reranked_docs"][1].relevance_score = 7

\* C9: after query expansion search_queries holds between 1 and 5 queries,
\* each of 3 to 10 words.
C9_QueryValidity ==
    Has(state, "search_queries") =>
        /\ Len(state["search_queries"]) \in 1..5
        /\ \A i \in 1..Len(state["search_queries"]) :
              Len(state["search_queries"][i]) \in 3..10

\* C10: a triage produced by the fallback path (call failure, recorded in
\* errors, or unparseable reply, which yields the fallback's confidence 0.5)
\* for an intent with sentiment frustrated has priority P1 and sla_hours 4.
TriageFellBack(s) ==
    \/ InSeq(s["errors"], "Triage classification error")
    \/ s["triage"].confidence = 5

C10_SentimentOverride ==
    (Has(state, "triage") /\ state["intent"].sentiment = "frustrated" /\ TriageFellBack(state))
        => (state["triage"].priority = "P1" /\ state["triage"].sla_hours = 4)

\* C11: when the triage capability call fails, the triage written by the
\* stage is the fallback-table entry of the intent's problem_type (category,
\* subcategory and team of that entry) with confidence 0.5.
TriageCallFailed(s) == InSeq(s["errors"], "Triage classification error")

TableEntry(problem_type) == DictGet(type_mapping, problem_type, type_mapping["other"])

C11_FallbackByProblemType ==
    (Has(state, "triage") /\ TriageCallFailed(state)) =>
        LET entry == TableEntry(state["intent"].problem_type)
        IN /\ state["triage"].category = entry.category
           /\ state["triage"].subcategory = entry.subcategory
           /\ state["triage"].suggested_team = entry.suggested_team
           /\ state["triage"].confidence = FallbackConfidence

\* C12: when the query-expansion call fails, the fallback queries start with
\* the first three template phrases of the intent's problem_type, followed by
\* at most two "<term> issue" / "<term> problem" phrases.
QueryCallFailed(s) == InSeq(s["errors"], "Query expansion error")

C12_FallbackQueriesByProblemType ==
    (Has(state, "search_queries") /\ QueryCallFailed(state)) =>
        LET phrases == Take(DictGet(type_queries, state["intent"].problem_type,
                                    type_queries["other"]), BaseQueryCount)
            queries == state["search_queries"]
        IN /\ Len(queries) >= Len(phrases)
           /\ SubSeq(queries, 1, Len(phrases)) = phrases
           /\ Len(queries) - Len(phrases) <= UsedKeyTerms

\* C14: after the triage stage, on every path, triage.priority is P1, P2 or
\* P3 and triage.sla_hours is an integer of at least 1.
C14_TriageValidated ==
    Has(state, "triage") =>
        /\ state["triage"].priority \in Priorities
        /\ state["triage"].sla_hours \in Nat
        /\ state["triage"].sla_hours >= 1

\* The capability returned priority "urgent" and sla_hours "48": both coerced.
C14_Witness ==
    /\ Has(state, "triage")
    /\ state["triage"].category = "Shipping"
    /\ state["triage"].priority = "P2"
    /\ state["triage"].sla_hours = DefaultSla

\* C15: an intent produced by a fallback of the intent stage (failed call or
\* unparseable response) is other / neutral with confidence 0.0, and a
\* diagnostic of the intent stage is in errors.
IntentFellBack(s) == Has(s["intent"], "reasoning")

C15_IntentFallback ==
    (Has(state, "intent") /\ IntentFellBack(state)) =>
        /\ state["intent"].problem_type = "other"
        /\ state["intent"].sentiment = "neutral"
        /\ state["intent"].confidence = 0
        /\ InSeq(state["errors"], "Intent detection error")

StageOrder ==
    <<"detect_intent", "classify_triage", "expand_queries", "vector_search",
      "rerank", "generate_draft", "check_policy">>

C18_LinearFlow ==
    [][/\ \A i \in 1..(Len(StageOrder) - 1) : pc = StageOrder[i] => pc' = StageOrder[i + 1]
       /\ pc = "check_policy" => pc' \in {"validate_output", END}
       /\ pc = "validate_output" => pc' = END
       /\ pc # END]_vars

\* A run that took the fallback of the first stage and still went through
\* every later stage to the end.
C18_Witness ==
    /\ pc = END
    /\ Head(state["errors"]) = "Intent detection error"
    /\ {"intent", "triage", "search_queries", "retrieved_docs", "reranked_docs",
        "draft", "policy_check"} \subseteq DOMAIN state

\* C19: each flag of the policy result is the OR of the rule-based and the
\* semantic finding: a rule-based SLA match sets sla_mentioned and a
\* rule-based escalation keyword sets escalation_needed.
C19_FlagsIncludeRuleFindings ==
    Has(state, "policy_check") =>
        LET rule_based_checks == check_policy_violations(RenderDraft(state["draft"]))
        IN /\ rule_based_checks.refund_promise => state["policy_check"].refund_promise
           /\ rule_based_checks.sla_promise => state["policy_check"].sla_mentioned
           /\ rule_based_checks.escalation_triggers # <<>>
                 => state["policy_check"].escalation_needed

\* C20: when the intent capability returned unparseable output, errors is
\* not empty when the gate is evaluated.
IntentUnparseable(s) == s["intent"] = IntentParseFallback

C20_ParseErrorLogged ==
    (pc \in {"validate_output", END} /\ IntentUnparseable(state)) => state["errors"] # <<>>

\* C13: two runs of one process that were given the same ticket and the same
\* forced fallbacks (every capability reply a failure or unparseable) end
\* with identical draft and triage, whatever ran before or in between.
AllForced(rs) == \A i \in 1..Len(rs) : rs[i].kind \in FallbackKinds

SameTicket(s1, s2) ==
    /\ s1["original_message"] = s2["original_message"]
    /\ s1["customer_email"] = s2["customer_email"]

InitialStateOf(s) ==
    [k \in {"ticket_id", "original_message", "customer_email", "errors"} |->
        IF k = "errors" THEN <<>> ELSE s[k]]

RECURSIVE RunAlone(_, _, _, _, _)
RunAlone(s, node, rs, templates, m) ==
    IF node = END THEN s
    ELSE IF node = "validate_output"
    THEN RunAlone(validate_output_node(s), END, rs, templates, m)
    ELSE IF rs = <<>> THEN s
    ELSE LET reply == Head(rs)
             after == CASE node = "detect_intent" -> detect_intent(s, reply)
                        [] node = "classify_triage" -> classify_triage(s, reply)
                        [] node = "expand_queries" -> expand_queries(s, reply)
                        [] node = "vector_search" -> vector_search_node(s, reply)
                        [] node = "rerank" -> rerank_node(s, m, reply)
                        [] node = "generate_draft" -> generate_draft(s, reply, templates)
                        [] node = "check_policy" -> check_policies(s, reply)
             next == CASE node = "detect_intent" -> "classify_triage"
                       [] node = "classify_triage" -> "expand_queries"
                       [] node = "expand_queries" -> "vector_search"
                       [] node = "vector_search" -> "rerank"
                       [] node = "rerank" -> "generate_draft"
                       [] node = "generate_draft" -> "check_policy"
                       [] node = "check_policy" -> should_escalate(after)
             left == IF node = "generate_draft"
                     THEN templates_after_draft(s, reply, templates)
                     ELSE templates
         IN RunAlone(after, next, Tail(rs), left, m)

ProblemTypes == {"billing", "technical", "account", "feature_request", "other"}

C21_IntentEnums ==
    Has(state, "intent") =>
        /\ state["intent"].problem_type \in ProblemTypes
        /\ state["intent"].sentiment \in Sentiments

\* C22: a document returned by the rerank stage carries the capability's
\* relevance score as its score when the capability scored it, and the score
\* the search stage gave it when the rerank call failed.
C22_RerankScores ==
    Has(state, "reranked_docs") =>
        \A i \in 1..Len(state["reranked_docs"]) :
            LET doc == state["reranked_docs"][i]
            IN IF Has(doc, "relevance_score")
               THEN doc.score = doc.relevance_score
               ELSE doc.score = SearchScore

\* C23: the list returned by the rerank stage has at most top_k documents, is
\* ordered by descending score, and documents with equal score appear in
\* their original retrieval order.
RetrievalPosition(doc) ==
    CHOOSE i \in 1..Len(state["retrieved_docs"]) :
        state["retrieved_docs"][i].doc_id = doc.doc_id

DraftCallFailed == Has(state, "draft") /\ InSeq(state["errors"], "Draft generation error")

\* C24: when the generation call of the draft stage fails, the fallback draft
\* is the template draft of the run's own context: template chosen by the
\* triage category, greeting with the customer name taken from the ticket's
\* e-mail address, tone adjusted for the intent's sentiment, identifiers of
\* the reranked documents appended to the body.
C24_FallbackDraftFromContext ==
    DraftCallFailed =>
        LET triage == DictGet(state, "triage", EmptyDict)
            customer_email == DictGet(state, "customer_email", <<>>)
        IN state["draft"] =
              generate_template_draft(response_templates,
                                      extract_customer_name(customer_email),
                                      DictGet(triage, "category", "General Inquiry"),
                                      DictGet(DictGet(state, "intent", EmptyDict),
                                              "sentiment", "neutral"),
                                      DictGet(state, "reranked_docs", <<>>),
                                      triage)

\* C25: for sentiment neutral the tone adjustment adds nothing: the body of
\* the template draft written with sentiment neutral (the draft of the
\* call-failure path) is the base template's body with its placeholders
\* filled in and nothing before or after it.
C25_NeutralAddsNothing ==
    DraftCallFailed =>
        state["draft"].body =
            format_response_template(get_response_template(response_templates, "General"),
                                     <<"Customer">>, <<"your", "inquiry">>,
                                     <<"this", "feature">>).body_template

\* The failed calls of the search capability that run r has made.
FailedSearchCalls(r) ==
    {i \in 1..Len(responses[r]) :
        Has(responses[r][i], "docs") /\ responses[r][i].kind = "raise"}

\* C26: a stage falls back to its default for a failed capability call only
\* after the call has been attempted three times: a run that recorded the
\* search stage's call failure has made three failed search calls.
C26_FailedCallRetried ==
    \A r \in Runs :
        InSeq(state[r]["errors"], "Vector search error") =>
            Cardinality(FailedSearchCalls(r)) = 3

\* An error recorded by one of the seven stages before the gate.
StageRecordedError(s) ==
    \E i \in 1..Len(s["errors"]) : s["errors"][i] # "Output validation error"

\* C27: every step keeps the errors list as a prefix of the new one and
\* appends at most one entry, and a state in which a stage before the gate
\* has recorded an error is never at validate_output and holds no
\* final_output.
C27_ErrorsAppendOnly ==
    [][/\ Len(state'["errors"]) \in {Len(state["errors"]), Len(state["errors"]) + 1}
       /\ SubSeq(state'["errors"], 1, Len(state["errors"])) = state["errors"]
       /\ StageRecordedError(state') =>
             (pc' # "validate_output" /\ ~Has(state', "final_output"))]_vars

C27_Witness ==
    /\ Escalated
    /\ Len(state["errors"]) >= 3
    /\ state["policy_check"].compliance = "passed"
    /\ state["triage"].confidence >= ConfidenceThreshold

\* The reply of a semantic call that failed.
SemanticCallFailed == [kind |-> "raise", data |-> EmptyDict]

\* C28: a policy step that records an error (check_policies raised on the
\* semantic result) appends exactly that one error, sets policy_check to
\* compliance "failed" with escalation_needed TRUE and leads to END with no
\* output; a policy step taken on a failure of the semantic call itself
\* appends no error, asks for no escalation and fails the draft only for a
\* refund promise found by the rules.
C28_PolicyFailsClosed ==
    [][pc = "check_policy" =>
          /\ state'["errors"] # state["errors"] =>
                /\ state'["errors"] = Append(state["errors"], "Policy check error")
                /\ state'["policy_check"].compliance = "failed"
                /\ state'["policy_check"].escalation_needed
                /\ pc' = END
                /\ ~Has(state', "final_output")
          /\ state' = check_policies(state, SemanticCallFailed) =>
                /\ state'["errors"] = state["errors"]
                /\ state'["policy_check"].compliance = "failed"
                      <=> state'["policy_check"].refund_promise
                /\ ~state'["policy_check"].escalation_needed]_vars

C28_Witness ==
    /\ Escalated
    /\ state["errors"] = <<"Policy check error">>
    /\ state["policy_check"].compliance = "failed"
    /\ state["policy_check"].escalation_needed
    /\ state["triage"].confidence >= ConfidenceThreshold

\* C29: a run whose triage is the lookup-table fallback (confidence exactly
\* 0.5), with no error recorded by any stage and policy compliance passed,
\* goes from the gate to validate_output, never to END without output.
C29_FallbackConfidencePasses ==
    (/\ Has(state, "policy_check")
     /\ state["triage"].confidence = FallbackConfidence
     /\ ~StageRecordedError(state)
     /\ state["policy_check"].compliance = "passed")
        => (pc = "validate_output" \/ Has(state, "final_output"))

C29_Witness ==
    /\ pc = "validate_output"
    /\ state["triage"] = validate_triage(TagSla(get_fallback_triage("billing", "frustrated")))
    /\ state["triage"].confidence = FallbackConfidence
    /\ state["errors"] = <<>>

\* C30: a step of the pipeline leaves every field the state already holds,
\* other than errors, as it was: the ticket fields and the results of the
\* earlier stages, retrieved_docs and the scores of its documents included.
C30_StageFrame ==
    [][\A k \in DOMAIN state : k # "errors" => state'[k] = state[k]]_vars

====
